---- MODULE Spec2Model ----
(***************************************************************************)
(* Planning_Parcel_Tool.py: the parcel report script.  One run resolves a  *)
(* parcel to its geometry, its planning district, its land-use label, the  *)
(* land use in the four cardinal directions and the metadata row of the    *)
(* reference table, then exports three layouts and writes a summary.       *)
(*                                                                         *)
(* Text values are sequences of one-character strings, so that str.strip   *)
(* and str.lower are computed character by character.  Geometries are      *)
(* axis-aligned rectangles; contains/overlaps are computed from the        *)
(* coordinates.  The features a layer holds are inputs, drawn when the     *)
(* first cursor over the layer is opened.  The arcpy and pandas calls are   *)
(* taken to do what their documentation says; the layers the dictionary    *)
(* names and the three layouts are taken to exist in the project.          *)
(***************************************************************************)
EXTENDS Integers, Sequences, FiniteSets, TLC

(***************************** bounds ***************************************)
\* most features the filtered parcel layer yields
MaxParcelRows == 1
\* most features of the planning-district layer
MaxDistricts == 1
\* most features of a land-use layer
MaxZones == 2
\* most rows of the reference table in the matcher specification
MaxRows == 2
\* most whitespace characters added on one side of a label variant
MaxPad == 1

(***************************** text values **********************************)
\* Python None (an unset name, a null attribute, a missing dictionary key)
NoneVal ==
    <<"<None>">>

FortLewisMesa ==
    <<"F", "o", "r", "t", " ", "L", "e", "w", "i", "s", " ", "M", "e", "s", "a">>
AnimasValley ==
    <<"A", "n", "i", "m", "a", "s", " ", "V", "a", "l", "l", "e", "y">>
AnimasZoningDistrict ==
    <<"A", "n", "i", "m", "a", "s", " ", "Z", "o", "n", "i", "n", "g", " ", "D", "i", "s", "t", "r", "i", "c", "t">>
GemVillageBusinessDistrict ==
    <<"G", "e", "m", " ", "V", "i", "l", "l", "a", "g", "e", " ", "B", "u", "s", "i", "n", "e", "s", "s", " ", "D", "i", "s", "t", "r", "i", "c", "t">>
DurangoDistrictPlan ==
    <<"D", "u", "r", "a", "n", "g", "o", " ", "D", "i", "s", "t", "r", "i", "c", "t", " ", "P", "l", "a", "n">>
FloridaMesa ==
    <<"F", "l", "o", "r", "i", "d", "a", " ", "M", "e", "s", "a">>
LaPostaRoad ==
    <<"L", "a", " ", "P", "o", "s", "t", "a", " ", "R", "o", "a", "d">>
FloridaRoad ==
    <<"F", "l", "o", "r", "i", "d", "a", " ", "R", "o", "a", "d">>
JunctionCreek ==
    <<"J", "u", "n", "c", "t", "i", "o", "n", " ", "C", "r", "e", "e", "k">>
NorthCounty ==
    <<"N", "o", "r", "t", "h", " ", "C", "o", "u", "n", "t", "y">>
Vallecito ==
    <<"V", "a", "l", "l", "e", "c", "i", "t", "o">>
WestDurango ==
    <<"W", "e", "s", "t", " ", "D", "u", "r", "a", "n", "g", "o">>

parcel_layer_name ==
    <<"S", "u", "b", "j", "e", "c", "t", " ", "P", "a", "r", "c", "e", "l">>
district_outline_name ==
    <<"P", "l", "a", "n", "n", "i", "n", "g", " ", "D", "i", "s", "t", "r", "i", "c", "t", " ", "O", "u", "t", "l", "i", "n", "e">>

\* the district-to-layer dictionary
district_to_layer ==
    [k \in {FortLewisMesa, AnimasValley, AnimasZoningDistrict,
            GemVillageBusinessDistrict, DurangoDistrictPlan, FloridaMesa,
            LaPostaRoad, FloridaRoad, JunctionCreek, NorthCounty, Vallecito,
            WestDurango} |-> k]

\* dict.get(key): the value, or None when the key is absent
DictGet(d, k) ==
    IF k \in DOMAIN d THEN d[k] ELSE NoneVal

\* the truthiness test dropped
Falsy_never(v) ==
    FALSE

\* Python truthiness of "not v" for None and str
Falsy(v) ==
    v = NoneVal \/ v = <<>>

UpperLetters ==
    <<"A", "B", "C", "D", "E", "F", "G", "H", "I", "J", "K", "L", "M", "N", "O", "P", "Q", "R", "S", "T", "U", "V", "W", "X", "Y", "Z">>
LowerLetters ==
    <<"a", "b", "c", "d", "e", "f", "g", "h", "i", "j", "k", "l", "m", "n", "o", "p", "q", "r", "s", "t", "u", "v", "w", "x", "y", "z">>

\* the characters str.strip() removes from both ends
Whitespace ==
    {" ", "\t", "\n"}

\* the lowercase letter of each uppercase letter, and the converse
LowerOf ==
    [c \in {UpperLetters[i] : i \in 1..Len(UpperLetters)} |->
        LowerLetters[CHOOSE i \in 1..Len(UpperLetters) : UpperLetters[i] = c]]
UpperOf ==
    [c \in {LowerLetters[i] : i \in 1..Len(LowerLetters)} |->
        UpperLetters[CHOOSE i \in 1..Len(LowerLetters) : LowerLetters[i] = c]]

LowerChar(c) ==
    IF c \in DOMAIN LowerOf THEN LowerOf[c] ELSE c

UpperChar(c) ==
    IF c \in DOMAIN UpperOf THEN UpperOf[c] ELSE c

\* str.lower()
StrLower(s) ==
    [i \in 1..Len(s) |-> LowerChar(s[i])]

\* str.strip(): drop the whitespace before the first and after the last
\* non-whitespace character; a string of whitespace only becomes empty
StrStrip(s) ==
    LET keep == {i \in 1..Len(s) : s[i] \notin Whitespace}
    IN  IF keep = {} THEN <<>>
        ELSE LET lo == CHOOSE i \in keep : \A j \in keep : i <= j
                 hi == CHOOSE i \in keep : \A j \in keep : j <= i
             IN  SubSeq(s, lo, hi)

(***************************** geometry *************************************)
Rect(x1, x2, y1, y2) ==
    [xmin |-> x1, xmax |-> x2, ymin |-> y1, ymax |-> y2]

\* planar offset of the directional probes
ProbeOffset == 50

\* the directions dictionary, in insertion order
DirOrder ==
    <<"North", "East", "South", "West">>
directions ==
    [d \in {"North", "East", "South", "West"} |->
        CASE d = "North" -> <<0, ProbeOffset>>
          [] d = "East"  -> <<ProbeOffset, 0>>
          [] d = "South" -> <<0, 0 - ProbeOffset>>
          [] d = "West"  -> <<0 - ProbeOffset, 0>>]

\* polygon.contains(polygon)
Contains(a, b) ==
    /\ a.xmin <= b.xmin /\ b.xmax <= a.xmax
    /\ a.ymin <= b.ymin /\ b.ymax <= a.ymax

\* polygon.overlaps(polygon): the interiors meet and neither contains the other
Overlaps(a, b) ==
    /\ a.xmin < b.xmax /\ b.xmin < a.xmax
    /\ a.ymin < b.ymax /\ b.ymin < a.ymax
    /\ ~Contains(a, b) /\ ~Contains(b, a)

\* polygon.contains(point)
ContainsPoint(a, p) ==
    /\ a.xmin < p[1] /\ p[1] < a.xmax
    /\ a.ymin < p[2] /\ p[2] < a.ymax

\* geometry.extent
Extent(g) ==
    <<g.xmin, g.ymin, g.xmax, g.ymax>>

\* geometry.centroid
Centroid(g) ==
    <<(g.xmin + g.xmax) \div 2, (g.ymin + g.ymax) \div 2>>

\* the probe point of a direction
ProbePoint(c, d) ==
    <<c[1] + directions[d][1], c[2] + directions[d][2]>>

NoGeom ==
    Rect(0, 0, 0, 0)

(***************************** inputs ***************************************)
SeqsUpTo(S, n) ==
    UNION {[1..k -> S] : k \in 0..n}

Residential ==
    <<"R", "e", "s", "i", "d", "e", "n", "t", "i", "a", "l">>
Agricultural ==
    <<"A", "g", "r", "i", "c", "u", "l", "t", "u", "r", "a", "l">>
\* a PLANNAME the district_to_layer dictionary has no key for
Bayfield ==
    <<"B", "a", "y", "f", "i", "e", "l", "d">>

\* parcel polygons; both have the centroid (100, 100)
ParcelGeoms ==
    {Rect(80, 120, 80, 120), Rect(90, 110, 90, 110)}

\* district polygons: one contains both parcels, one only the smaller
DistrictShapes ==
    {Rect(0, 200, 0, 200), Rect(85, 115, 85, 115)}

\* PLANNAME values of the district layer; the attribute may be null
DistrictNames ==
    {Vallecito, Bayfield, NoneVal}

DistrictFeatures ==
    [shape : DistrictShapes, name : DistrictNames]

\* LUC_TEXT values of a land-use layer; the attribute may be null
ZoneLabels ==
    {Residential, Agricultural, NoneVal}

\* zones: a north-east block (North and East probes) and a south-west block
\* (South and West probes), which both meet the parcels, and a block away
\* from the parcels and from every probe, whose label is never read
ZoneFeatures ==
    [shape : {Rect(85, 200, 85, 200), Rect(0, 115, 0, 115)}, label : ZoneLabels]
    \cup {[shape |-> Rect(130, 200, 130, 200), label |-> Agricultural]}

\* layers of the map that can be the first one listed: the parcel layer,
\* which has no LUC_TEXT field, or a land-use layer
MapLayers ==
    {parcel_layer_name, Vallecito}

\* whether a layer has the LUC_TEXT field the land-use cursors ask for
HasLucText(layer) ==
    layer \in {district_to_layer[k] : k \in DOMAIN district_to_layer}

(***************************** state ****************************************)
VARIABLES
    pc,                   \* the step the script is at, "done" or "failed"
    err,                  \* the exception that ended the run, or "none"
    df,                   \* rows of the Excel sheet
    parcels,              \* features of the parcel layer under the definition query
    districts,            \* features of the district layer, in cursor order
    zones,                \* features of land_use_layer, in cursor order
    cursor,               \* the name "cursor": whether bound to an open cursor, its layer and position
    openCursors,          \* number of cursors opened and not yet released
    queried,              \* layers a cursor has been opened on
    districtsRead,        \* rows the district cursor has yielded
    zonesRead,            \* rows the land-use cursor of step 3 has yielded
    parcel_geom,
    parcel_extent,
    planning_district,
    land_use_layer_name,
    land_use_layer,
    land_use_value,
    dirIdx,               \* position of the loop over directions (0 before it starts)
    centroid,
    probe,
    directional_land_use,
    size,
    desc,
    exported,             \* layouts exported so far, in order
    summary               \* <<>> or the one summary written

vars ==
    <<pc, err, df, parcels, districts, zones, cursor, openCursors, queried,
      districtsRead, zonesRead, parcel_geom, parcel_extent, planning_district,
      land_use_layer_name, land_use_layer, land_use_value, dirIdx, centroid,
      probe, directional_land_use, size, desc, exported, summary>>

\* the layouts exported as soon as the parcel extent is known
StepOrder_exportFirst ==
    <<"step1", "step6", "step2", "step3", "step4", "step5", "step7">>

\* the statement order of the script
StepOrder ==
    <<"step1", "step2", "step3", "step4", "step5", "step6", "step7">>

\* where control goes when step s falls through
After(s) ==
    LET i == CHOOSE j \in 1..Len(StepOrder) : StepOrder[j] = s
    IN  IF i = Len(StepOrder) THEN "done" ELSE StepOrder[i + 1]

NoCursor ==
    [active |-> FALSE, layer |-> NoneVal, pos |-> 0]

\* entering "with arcpy.da.SearchCursor(layer, ...) as cursor"
WithEnter(layer) ==
    /\ cursor' = [active |-> TRUE, layer |-> layer, pos |-> 1]
    /\ openCursors' = openCursors + 1
    /\ queried' = queried \cup {layer}

\* a cursor that is never released
Released_leak(n) ==
    n

\* number of open cursors after the with block is left
Released(n) ==
    n - 1

\* leaving the with block, by fall-through, break or exception
WithExit ==
    /\ cursor' = [cursor EXCEPT !.active = FALSE]
    /\ openCursors' = Released(openCursors)
    /\ UNCHANGED queried

\* an uncaught exception ends the script
Raise(e) ==
    /\ pc' = "failed"
    /\ err' = e

(***************************** reference table ******************************)
NotFound ==
    <<"N", "o", "t", " ", "f", "o", "u", "n", "d">>
Unknown ==
    <<"U", "n", "k", "n", "o", "w", "n">>

\* lowercasing without trimming
Norm_lowerOnly(s) ==
    StrLower(s)

\* .str.strip().str.lower() on a column cell, .strip().lower() on a label
Norm(s) ==
    StrLower(StrStrip(s))

\* the boolean mask of the data frame selection
RowMatches(row, district, type) ==
    /\ Norm(row.district) = Norm(district)
    /\ Norm(row.type) = Norm(type)

\* df[mask]: the matching rows, in table order
MatchRows(table, district, type) ==
    SelectSeq(table, LAMBDA row : RowMatches(row, district, type))

\* the matcher without the "Not found" branch
MatchResult_noSentinel(table, district, type) ==
    LET match == MatchRows(table, district, type)
    IN  IF match # <<>> THEN <<match[1].size, match[1].desc>>
        ELSE <<<<>>, <<>>>>

\* (size, desc) of match.iloc[0], or the "Not found" pair when match is empty
MatchResult(table, district, type) ==
    LET match == MatchRows(table, district, type)
    IN  IF match # <<>> THEN <<match[1].size, match[1].desc>>
        ELSE <<NotFound, NotFound>>

\* label variants the tables and the resolved labels are drawn from
PaddedLowerVallecito ==
    <<" ">> \o StrLower(Vallecito) \o <<" ">>
UpperResidentialTrailing ==
    [i \in 1..Len(Residential) |-> UpperChar(Residential[i])] \o <<" ">>

\* the SIZE and DESC cells of a row, distinct for distinct (district, type) cells
CellOf(tag, district, type) ==
    <<tag>> \o district \o <<"/">> \o type

TableRow(d, t) ==
    [district |-> d, type |-> t, size |-> CellOf("S", d, t), desc |-> CellOf("D", d, t)]

\* rows the sheets of the matcher specification are made of
TableRows ==
    {TableRow(Vallecito, UpperResidentialTrailing),
     TableRow(PaddedLowerVallecito, Residential),
     TableRow(PaddedLowerVallecito, UpperResidentialTrailing),
     TableRow(Vallecito, Agricultural)}

\* the sheet the pipeline runs are checked with: its first matching row for
\* (Vallecito, Residential) is spelled differently and is not its first row
PipelineTables ==
    {<<TableRow(PaddedLowerVallecito, Agricultural),
       TableRow(PaddedLowerVallecito, UpperResidentialTrailing),
       TableRow(Vallecito, Residential)>>}

(***************************** layouts **************************************)
\* layout_exports, in insertion order; scale 0 stands for None
layout_exports ==
    <<[layout |-> "Layout1", frame |-> "Figure 1", scale |-> 2640],
      [layout |-> "Layout2", frame |-> "Figure 2", scale |-> 0],
      [layout |-> "Layout3", frame |-> "Figure 3", scale |-> 0]>>

(***************************** initial state ********************************)
Unset ==
    /\ err = "none"
    /\ parcels = <<>>
    /\ districts = <<>>
    /\ zones = <<>>
    /\ cursor = NoCursor
    /\ openCursors = 0
    /\ queried = {}
    /\ districtsRead = 0
    /\ zonesRead = 0
    /\ parcel_geom = NoGeom
    /\ parcel_extent = Extent(NoGeom)
    /\ land_use_layer_name = NoneVal
    /\ land_use_layer = NoneVal
    /\ dirIdx = 0
    /\ centroid = <<0, 0>>
    /\ probe = <<0, 0>>
    /\ directional_land_use = [d \in {} |-> NoneVal]
    /\ size = NoneVal
    /\ desc = NoneVal
    /\ exported = <<>>
    /\ summary = <<>>

\* the state when step 1 is reached: the sheet is loaded, nothing is resolved
Init ==
    /\ pc = "step1"
    /\ df \in PipelineTables
    /\ planning_district = NoneVal
    /\ land_use_value = NoneVal
    /\ Unset

(***************************** step 1: parcel *******************************)
\* the definition query is set and the cursor over the parcel layer opened
OpenParcelCursor ==
    /\ pc = "step1" /\ ~cursor.active
    /\ \E ps \in SeqsUpTo(ParcelGeoms, MaxParcelRows) : parcels' = ps
    /\ WithEnter(parcel_layer_name)
    /\ UNCHANGED <<pc, err, df, districts, zones, districtsRead, zonesRead,
                   parcel_geom, parcel_extent, planning_district,
                   land_use_layer_name, land_use_layer, land_use_value, dirIdx,
                   centroid, probe, directional_land_use, size, desc, exported,
                   summary>>

\* next(cursor) on a cursor with no row raises StopIteration
ParcelMissing ==
    /\ pc = "step1" /\ cursor.active
    /\ cursor.pos > Len(parcels)
    /\ WithExit
    /\ Raise("StopIteration")
    /\ UNCHANGED <<df, parcels, districts, zones, districtsRead, zonesRead,
                   parcel_geom, parcel_extent, planning_district,
                   land_use_layer_name, land_use_layer, land_use_value, dirIdx,
                   centroid, probe, directional_land_use, size, desc, exported,
                   summary>>

\* next(cursor)[0] is the geometry of the first row; then its extent is taken
ParcelFound ==
    /\ pc = "step1" /\ cursor.active
    /\ cursor.pos <= Len(parcels)
    /\ parcel_geom' = parcels[cursor.pos]
    /\ WithExit
    /\ parcel_extent' = Extent(parcel_geom')
    /\ pc' = After("step1")
    /\ UNCHANGED <<err, df, parcels, districts, zones, districtsRead, zonesRead,
                   planning_district, land_use_layer_name, land_use_layer,
                   land_use_value, dirIdx, centroid, probe,
                   directional_land_use, size, desc, exported, summary>>

(***************************** step 2: district *****************************)
OpenDistrictCursor ==
    /\ pc = "step2" /\ ~cursor.active
    /\ planning_district' = NoneVal
    /\ \E ds \in SeqsUpTo(DistrictFeatures, MaxDistricts) : districts' = ds
    /\ WithEnter(district_outline_name)
    /\ UNCHANGED <<pc, err, df, parcels, zones, districtsRead, zonesRead,
                   parcel_geom, parcel_extent, land_use_layer_name,
                   land_use_layer, land_use_value, dirIdx, centroid, probe,
                   directional_land_use, size, desc, exported, summary>>

\* the row does not contain the parcel: the loop goes on
DistrictSkip ==
    /\ pc = "step2" /\ cursor.active
    /\ cursor.pos <= Len(districts)
    /\ ~Contains(districts[cursor.pos].shape, parcel_geom)
    /\ cursor' = [cursor EXCEPT !.pos = @ + 1]
    /\ districtsRead' = districtsRead + 1
    /\ UNCHANGED <<pc, err, df, parcels, districts, zones, openCursors, queried,
                   zonesRead, parcel_geom, parcel_extent, planning_district,
                   land_use_layer_name, land_use_layer, land_use_value, dirIdx,
                   centroid, probe, directional_land_use, size, desc, exported,
                   summary>>

\* the row contains the parcel: its PLANNAME is taken and the loop broken;
\* a falsy planning_district then raises
DistrictMatch ==
    /\ pc = "step2" /\ cursor.active
    /\ cursor.pos <= Len(districts)
    /\ Contains(districts[cursor.pos].shape, parcel_geom)
    /\ planning_district' = districts[cursor.pos].name
    /\ districtsRead' = districtsRead + 1
    /\ WithExit
    /\ IF Falsy(planning_district')
       THEN Raise("DistrictNotFound")
       ELSE pc' = After("step2") /\ UNCHANGED err
    /\ UNCHANGED <<df, parcels, districts, zones, zonesRead, parcel_geom,
                   parcel_extent, land_use_layer_name, land_use_layer,
                   land_use_value, dirIdx, centroid, probe,
                   directional_land_use, size, desc, exported, summary>>

\* the cursor is exhausted: planning_district is still None
DistrictExhausted ==
    /\ pc = "step2" /\ cursor.active
    /\ cursor.pos > Len(districts)
    /\ WithExit
    /\ IF Falsy(planning_district)
       THEN Raise("DistrictNotFound")
       ELSE pc' = After("step2") /\ UNCHANGED err
    /\ UNCHANGED <<df, parcels, districts, zones, districtsRead, zonesRead,
                   parcel_geom, parcel_extent, planning_district,
                   land_use_layer_name, land_use_layer, land_use_value, dirIdx,
                   centroid, probe, directional_land_use, size, desc, exported,
                   summary>>

(***************************** step 3: land use *****************************)
\* the dictionary has the district: the layer of that name is taken
LookupLayerMapped ==
    /\ pc = "step3" /\ ~cursor.active /\ land_use_layer = NoneVal
    /\ DictGet(district_to_layer, planning_district) # NoneVal
    /\ land_use_layer_name' = DictGet(district_to_layer, planning_district)
    /\ land_use_layer' = land_use_layer_name'
    /\ land_use_value' = NoneVal
    /\ UNCHANGED <<pc, err, df, parcels, districts, zones, cursor, openCursors,
                   queried, districtsRead, zonesRead, parcel_geom,
                   parcel_extent, planning_district, dirIdx, centroid, probe,
                   directional_land_use, size, desc, exported, summary>>

\* the dictionary lacks the district: get() gives None, listLayers(None)
\* lists every layer of the map and [0] takes the first of them
LookupLayerUnmapped ==
    /\ pc = "step3" /\ ~cursor.active /\ land_use_layer = NoneVal
    /\ DictGet(district_to_layer, planning_district) = NoneVal
    /\ land_use_layer_name' = NoneVal
    /\ \E first \in MapLayers : land_use_layer' = first
    /\ land_use_value' = NoneVal
    /\ UNCHANGED <<pc, err, df, parcels, districts, zones, cursor, openCursors,
                   queried, districtsRead, zonesRead, parcel_geom,
                   parcel_extent, planning_district, dirIdx, centroid, probe,
                   directional_land_use, size, desc, exported, summary>>

\* a cursor asking for LUC_TEXT on a layer without that field raises
OpenLandUseCursorFails ==
    /\ pc = "step3" /\ ~cursor.active /\ land_use_layer # NoneVal
    /\ ~HasLucText(land_use_layer)
    /\ Raise("RuntimeError")
    /\ UNCHANGED <<df, parcels, districts, zones, cursor, openCursors, queried,
                   districtsRead, zonesRead, parcel_geom, parcel_extent,
                   planning_district, land_use_layer_name, land_use_layer,
                   land_use_value, dirIdx, centroid, probe,
                   directional_land_use, size, desc, exported, summary>>

OpenLandUseCursor ==
    /\ pc = "step3" /\ ~cursor.active /\ land_use_layer # NoneVal
    /\ HasLucText(land_use_layer)
    /\ \E zs \in SeqsUpTo(ZoneFeatures, MaxZones) : zones' = zs
    /\ WithEnter(land_use_layer)
    /\ UNCHANGED <<pc, err, df, parcels, districts, districtsRead, zonesRead,
                   parcel_geom, parcel_extent, planning_district,
                   land_use_layer_name, land_use_layer, land_use_value, dirIdx,
                   centroid, probe, directional_land_use, size, desc, exported,
                   summary>>

\* the predicate of the land-use loop
ZoneHit(shape, geom) ==
    Overlaps(shape, geom) \/ Contains(shape, geom)

LandUseSkip ==
    /\ pc = "step3" /\ cursor.active
    /\ cursor.pos <= Len(zones)
    /\ ~ZoneHit(zones[cursor.pos].shape, parcel_geom)
    /\ cursor' = [cursor EXCEPT !.pos = @ + 1]
    /\ zonesRead' = zonesRead + 1
    /\ UNCHANGED <<pc, err, df, parcels, districts, zones, openCursors, queried,
                   districtsRead, parcel_geom, parcel_extent, planning_district,
                   land_use_layer_name, land_use_layer, land_use_value, dirIdx,
                   centroid, probe, directional_land_use, size, desc, exported,
                   summary>>

LandUseMatch ==
    /\ pc = "step3" /\ cursor.active
    /\ cursor.pos <= Len(zones)
    /\ ZoneHit(zones[cursor.pos].shape, parcel_geom)
    /\ land_use_value' = zones[cursor.pos].label
    /\ zonesRead' = zonesRead + 1
    /\ WithExit
    /\ IF Falsy(land_use_value')
       THEN Raise("LandUseNotFound")
       ELSE pc' = After("step3") /\ UNCHANGED err
    /\ UNCHANGED <<df, parcels, districts, zones, districtsRead, parcel_geom,
                   parcel_extent, planning_district, land_use_layer_name,
                   land_use_layer, dirIdx, centroid, probe,
                   directional_land_use, size, desc, exported, summary>>

LandUseExhausted ==
    /\ pc = "step3" /\ cursor.active
    /\ cursor.pos > Len(zones)
    /\ WithExit
    /\ IF Falsy(land_use_value)
       THEN Raise("LandUseNotFound")
       ELSE pc' = After("step3") /\ UNCHANGED err
    /\ UNCHANGED <<df, parcels, districts, zones, districtsRead, zonesRead,
                   parcel_geom, parcel_extent, planning_district,
                   land_use_layer_name, land_use_layer, land_use_value, dirIdx,
                   centroid, probe, directional_land_use, size, desc, exported,
                   summary>>

(***************************** step 4: directions ***************************)
\* directional_land_use[d] = v
Put(dlu, d, v) ==
    [x \in DOMAIN dlu \cup {d} |-> IF x = d THEN v ELSE dlu[x]]

\* a probe loop without its else branch
ForElse_skip(dlu, d) ==
    dlu

\* the else branch of the probe loop: no row contained the probe
ForElse(dlu, d) ==
    Put(dlu, d, Unknown)

StartProbing ==
    /\ pc = "step4" /\ ~cursor.active /\ dirIdx = 0
    /\ directional_land_use' = [d \in {} |-> NoneVal]
    /\ centroid' = Centroid(parcel_geom)
    /\ dirIdx' = 1
    /\ UNCHANGED <<pc, err, df, parcels, districts, zones, cursor, openCursors,
                   queried, districtsRead, zonesRead, parcel_geom,
                   parcel_extent, planning_district, land_use_layer_name,
                   land_use_layer, land_use_value, probe, size, desc, exported,
                   summary>>

\* the probe point of the direction is built and the layer queried again
OpenProbeCursor ==
    /\ pc = "step4" /\ ~cursor.active /\ dirIdx \in 1..Len(DirOrder)
    /\ probe' = ProbePoint(centroid, DirOrder[dirIdx])
    /\ WithEnter(land_use_layer)
    /\ UNCHANGED <<pc, err, df, parcels, districts, zones, districtsRead,
                   zonesRead, parcel_geom, parcel_extent, planning_district,
                   land_use_layer_name, land_use_layer, land_use_value, dirIdx,
                   centroid, directional_land_use, size, desc, exported,
                   summary>>

\* after the with block of a direction: the next direction, or the next step
NextDirection ==
    /\ dirIdx' = dirIdx + 1
    /\ pc' = IF dirIdx = Len(DirOrder) THEN After("step4") ELSE pc

ProbeSkip ==
    /\ pc = "step4" /\ cursor.active
    /\ cursor.pos <= Len(zones)
    /\ ~ContainsPoint(zones[cursor.pos].shape, probe)
    /\ cursor' = [cursor EXCEPT !.pos = @ + 1]
    /\ UNCHANGED <<pc, err, df, parcels, districts, zones, openCursors, queried,
                   districtsRead, zonesRead, parcel_geom, parcel_extent,
                   planning_district, land_use_layer_name, land_use_layer,
                   land_use_value, dirIdx, centroid, probe,
                   directional_land_use, size, desc, exported, summary>>

ProbeMatch ==
    /\ pc = "step4" /\ cursor.active
    /\ cursor.pos <= Len(zones)
    /\ ContainsPoint(zones[cursor.pos].shape, probe)
    /\ directional_land_use' =
          Put(directional_land_use, DirOrder[dirIdx], zones[cursor.pos].label)
    /\ WithExit
    /\ NextDirection
    /\ UNCHANGED <<err, df, parcels, districts, zones, districtsRead, zonesRead,
                   parcel_geom, parcel_extent, planning_district,
                   land_use_layer_name, land_use_layer, land_use_value,
                   centroid, probe, size, desc, exported, summary>>

ProbeExhausted ==
    /\ pc = "step4" /\ cursor.active
    /\ cursor.pos > Len(zones)
    /\ directional_land_use' = ForElse(directional_land_use, DirOrder[dirIdx])
    /\ WithExit
    /\ NextDirection
    /\ UNCHANGED <<err, df, parcels, districts, zones, districtsRead, zonesRead,
                   parcel_geom, parcel_extent, planning_district,
                   land_use_layer_name, land_use_layer, land_use_value,
                   centroid, probe, size, desc, exported, summary>>

(***************************** step 5: Excel row ****************************)
MatchExcelRow ==
    /\ pc = "step5"
    /\ size' = MatchResult(df, planning_district, land_use_value)[1]
    /\ desc' = MatchResult(df, planning_district, land_use_value)[2]
    /\ pc' = After("step5")
    /\ UNCHANGED <<err, df, parcels, districts, zones, cursor, openCursors,
                   queried, districtsRead, zonesRead, parcel_geom,
                   parcel_extent, planning_district, land_use_layer_name,
                   land_use_layer, land_use_value, dirIdx, centroid, probe,
                   directional_land_use, exported, summary>>

(***************************** step 6: layouts ******************************)
\* one pass of the export loop: the frame is set to the parcel extent and
\* the layout exported
ExportLayout ==
    /\ pc = "step6" /\ Len(exported) < Len(layout_exports)
    /\ LET config == layout_exports[Len(exported) + 1]
       IN  exported' = Append(exported,
              [layout |-> config.layout, frame |-> config.frame,
               extent |-> parcel_extent, scale |-> config.scale])
    /\ pc' = IF Len(exported') = Len(layout_exports) THEN After("step6") ELSE pc
    /\ UNCHANGED <<err, df, parcels, districts, zones, cursor, openCursors,
                   queried, districtsRead, zonesRead, parcel_geom,
                   parcel_extent, planning_district, land_use_layer_name,
                   land_use_layer, land_use_value, dirIdx, centroid, probe,
                   directional_land_use, size, desc, summary>>

(***************************** step 7: summary ******************************)
WriteSummary ==
    /\ pc = "step7"
    /\ summary' = <<[district |-> planning_district,
                     landUse |-> land_use_value,
                     size |-> size, desc |-> desc,
                     adjacent |-> [d \in {"North", "East", "South", "West"} |->
                                      directional_land_use[d]]]>>
    /\ pc' = After("step7")
    /\ UNCHANGED <<err, df, parcels, districts, zones, cursor, openCursors,
                   queried, districtsRead, zonesRead, parcel_geom,
                   parcel_extent, planning_district, land_use_layer_name,
                   land_use_layer, land_use_value, dirIdx, centroid, probe,
                   directional_land_use, size, desc, exported>>

(***************************** specifications *******************************)
Next ==
    \/ OpenParcelCursor \/ ParcelMissing \/ ParcelFound
    \/ OpenDistrictCursor \/ DistrictSkip \/ DistrictMatch \/ DistrictExhausted
    \/ LookupLayerMapped \/ LookupLayerUnmapped
    \/ OpenLandUseCursorFails \/ OpenLandUseCursor
    \/ LandUseSkip \/ LandUseMatch \/ LandUseExhausted
    \/ StartProbing \/ OpenProbeCursor
    \/ ProbeSkip \/ ProbeMatch \/ ProbeExhausted
    \/ MatchExcelRow
    \/ ExportLayout
    \/ WriteSummary

Spec ==
    Init /\ [][Next]_vars

\* the matcher alone: the sheet and the resolved labels are drawn, step 5 runs
InitMatch ==
    /\ pc = "step5"
    /\ df \in SeqsUpTo(TableRows, MaxRows)
    /\ planning_district \in {Vallecito, PaddedLowerVallecito, Bayfield}
    /\ land_use_value \in {UpperResidentialTrailing, Agricultural}
    /\ Unset

NextMatch ==
    MatchExcelRow

SpecMatch ==
    InitMatch /\ [][NextMatch]_vars

(***************************** properties ***********************************)
Directions ==
    {"North", "East", "South", "West"}

\* index of the first element of seq that satisfies Hit, 0 when there is none
FirstIndex(seq, Hit(_)) ==
    IF \E i \in 1..Len(seq) : Hit(seq[i])
    THEN CHOOSE i \in 1..Len(seq) :
            Hit(seq[i]) /\ \A j \in 1..(i - 1) : ~Hit(seq[j])
    ELSE 0

\* the exceptions the script ends with for the four fatal conditions
FatalErrors ==
    {"NotFound", "StopIteration", "DistrictNotFound", "UnmappedDistrict",
     "LandUseNotFound"}

Terminated ==
    pc \in {"done", "failed"}

\* the district scan has run and the script has left step 2
DistrictResolved ==
    district_outline_name \in queried /\ pc # "step2"

\* the land-use scan of step 3 has run and the script has left step 3
LandUseResolved ==
    /\ DistrictResolved /\ pc # "step3"
    /\ land_use_layer # NoneVal /\ HasLucText(land_use_layer)

FirstDistrict ==
    FirstIndex(districts, LAMBDA f : Contains(f.shape, parcel_geom))

FirstZone ==
    FirstIndex(zones, LAMBDA f : Overlaps(f.shape, parcel_geom)
                                   \/ Contains(f.shape, parcel_geom))

\* C1: a run that ended in a fatal error has exported no layout and written
\* no summary; a terminated run has all three layouts and the summary, or
\* no output at all.
C1_NoPartialReport ==
    /\ err \in FatalErrors =>
          pc = "failed" /\ exported = <<>> /\ summary = <<>>
    /\ Terminated =>
          \/ Len(exported) = Len(layout_exports) /\ summary # <<>>
          \/ exported = <<>> /\ summary = <<>>

C1_Witness ==
    pc = "failed" /\ err = "LandUseNotFound" /\ zonesRead > 0

\* C2: when the resolved district is not a key of district_to_layer, the run
\* fails with UnmappedDistrict, no land-use layer is queried and no land-use
\* label is resolved.
C2_UnmappedDistrictFails ==
    (/\ DistrictResolved /\ ~Falsy(planning_district)
     /\ planning_district \notin DOMAIN district_to_layer
     /\ land_use_layer # NoneVal)
    => /\ pc = "failed" /\ err = "UnmappedDistrict"
       /\ \A l \in queried : ~HasLucText(l)
       /\ land_use_value = NoneVal

\* C3: with zero matching parcel features the locator fails with NotFound
\* and yields no geometry or extent; otherwise it yields the geometry of the
\* first feature and that geometry's extent.
C3_ParcelLocator ==
    (parcel_layer_name \in queried /\ ~cursor.active) =>
        IF parcels = <<>>
        THEN /\ pc = "failed" /\ err = "NotFound"
             /\ parcel_geom = NoGeom /\ parcel_extent = Extent(NoGeom)
        ELSE /\ parcel_geom = parcels[1]
             /\ parcel_extent = Extent(parcels[1])

\* C4: when no district contains the parcel, the run fails with
\* DistrictNotFound after every district was read, and nothing of steps 3 to
\* 7 has happened.
C4_DistrictNotFound ==
    (DistrictResolved /\ FirstDistrict = 0) =>
        /\ pc = "failed" /\ err = "DistrictNotFound"
        /\ districtsRead = Len(districts)
        /\ land_use_layer = NoneVal /\ land_use_value = NoneVal
        /\ queried = {parcel_layer_name, district_outline_name}
        /\ dirIdx = 0 /\ size = NoneVal /\ desc = NoneVal
        /\ exported = <<>> /\ summary = <<>>

C4_Witness ==
    /\ pc = "failed" /\ err = "DistrictNotFound"
    /\ Len(districts) > 0 /\ FirstDistrict = 0

\* C5: when some district contains the parcel, the resolver returns the name
\* of the first such district in cursor order and reads no row after it.
C5_FirstContainingDistrict ==
    (DistrictResolved /\ FirstDistrict # 0) =>
        /\ err # "DistrictNotFound"
        /\ planning_district = districts[FirstDistrict].name
        /\ districtsRead = FirstDistrict

\* C6: for a mapped district, the layer district_to_layer assigns is queried
\* and the label of the first zone that overlaps or contains the parcel is
\* returned; no row after it is read.
C6_FirstHitZone ==
    (/\ LandUseResolved
     /\ planning_district \in DOMAIN district_to_layer
     /\ FirstZone # 0)
    => /\ land_use_layer = district_to_layer[planning_district]
       /\ land_use_layer \in queried
       /\ err # "LandUseNotFound"
       /\ land_use_value = zones[FirstZone].label
       /\ zonesRead = FirstZone

\* the point 50 units from the centroid of the parcel in direction d
OffsetPoint(d) ==
    LET c == Centroid(parcel_geom)
    IN  CASE d = "North" -> <<c[1], c[2] + 50>>
          [] d = "East"  -> <<c[1] + 50, c[2]>>
          [] d = "South" -> <<c[1], c[2] - 50>>
          [] d = "West"  -> <<c[1] - 50, c[2]>>

\* the label the prober owes for direction d
ProbeLabel(d) ==
    LET i == FirstIndex(zones, LAMBDA f : ContainsPoint(f.shape, OffsetPoint(d)))
    IN  IF i = 0 THEN Unknown ELSE zones[i].label

\* C7: once the prober has run, directional_land_use has exactly the keys
\* North, East, South, West, each with the label of the first zone that
\* contains the direction's offset point or "Unknown"; while it runs the
\* script does not fail and no other key appears.
C7_FourDirections ==
    /\ DOMAIN directional_land_use \subseteq Directions
    /\ (dirIdx > 0 /\ pc = "step4") => err = "none"
    /\ dirIdx > Len(DirOrder) =>
          /\ DOMAIN directional_land_use = Directions
          /\ \A d \in Directions : directional_land_use[d] = ProbeLabel(d)
          /\ pc # "failed"

C7_Witness ==
    /\ pc = "done"
    /\ \E d \in Directions : summary[1].adjacent[d] = Unknown
    /\ \E d \in Directions : summary[1].adjacent[d] = Residential

StrUpper(s) ==
    [i \in 1..Len(s) |-> UpperChar(s[i])]

\* s with the case of its first letter changed
ToggleFirst(s) ==
    IF s = <<>> THEN s
    ELSE [s EXCEPT ![1] = IF UpperChar(@) = @ THEN LowerChar(@) ELSE UpperChar(@)]

\* spellings of s that differ in letter case and in leading and trailing
\* blanks and tabs only
Pads ==
    SeqsUpTo({" ", "\t"}, MaxPad)
Variants(s) ==
    {l \o c \o r : l \in Pads, r \in Pads,
                   c \in {StrLower(s), StrUpper(s), ToggleFirst(s)}}

NoRowForPair ==
    \A i \in 1..Len(df) : ~RowMatches(df[i], planning_district, land_use_value)

\* C9: when the table has no row for the resolved pair, the matcher yields
\* ("Not found", "Not found") without failing, and the summary of the
\* finished run carries that pair.
C9_NotFoundSentinel ==
    (size # NoneVal /\ NoRowForPair) =>
        /\ size = NotFound /\ desc = NotFound
        /\ pc # "failed"
        /\ pc = "done" =>
              /\ summary # <<>>
              /\ summary[1].size = NotFound /\ summary[1].desc = NotFound

C9_Witness ==
    /\ pc = "done" /\ summary[1].size = NotFound
    /\ summary[1].district = Bayfield /\ summary[1].landUse = Residential

\* C10: at most one cursor is open, it is the one bound to the name cursor,
\* and none is open once the run has terminated.
C10_CursorsReleased ==
    /\ openCursors \in {0, 1}
    /\ cursor.active <=> openCursors = 1
    /\ Terminated => openCursors = 0

C10_Witness ==
    /\ pc = "failed" /\ err = "StopIteration"
    /\ parcel_layer_name \in queried /\ openCursors = 0

====
